---- MODULE Spec2Model ----
(***************************************************************************)
(* State-machine model of server.py, the Flask booking application:        *)
(* clubs spend points to reserve places in competitions.                   *)
(*                                                                         *)
(* The two module-level lists `clubs` and `competitions` are the store;    *)
(* `session` is the signed cookie of the one client that is modelled;      *)
(* `now` is the wall clock read by datetime.now(); `result` is the         *)
(* response of the last request served; `applied` is a history variable    *)
(* that sums the place counts of the purchases that were applied;          *)
(* `inflight` is, for each worker thread of the server, the purchase it    *)
(* has validated and is applying, with the line it is about to execute;    *)
(* `raced` is a history variable: whether some purchase was validated      *)
(* while another one was between its validation and its last write.        *)
(***************************************************************************)
EXTENDS Integers, Sequences, FiniteSets, TLC

VARIABLES clubs, competitions, session, now, result, applied, inflight, raced

vars == <<clubs, competitions, session, now, result, applied, inflight, raced>>

store == <<clubs, competitions>>

(***************************************************************************)
(* Bounds of the model.                                                    *)
(***************************************************************************)
\* The clock runs from 0 to MaxTime.
MaxTime == 1

\* Requests with a negative place count are submitted only while the ledger
\* entry they would produce is >= -MaxDebt (such requests raise points and
\* places without limit otherwise).
MaxDebt == 6

(***************************************************************************)
(* Python values.  A JSON field such as "points" is a str when loaded and  *)
(* an int once the server has written it back; int(v) reads both.          *)
(***************************************************************************)
PyStr(s) == [t |-> "str", s |-> s, n |-> 0]

PyNum(n) == [t |-> "int", s |-> <<>>, n |-> n]

DigitChars == <<"0", "1", "2", "3", "4", "5", "6", "7", "8", "9">>

IsDigit(ch) == \E d \in 1..10 : DigitChars[d] = ch

DigitVal(ch) == (CHOOSE d \in 1..10 : DigitChars[d] = ch) - 1

RECURSIVE ParseDigits(_)
ParseDigits(s) ==
    IF s = <<>> THEN 0
    ELSE ParseDigits(SubSeq(s, 1, Len(s) - 1)) * 10 + DigitVal(s[Len(s)])

\* int(s) raises ValueError unless s is an optional sign followed by digits.
IsNumeric(s) ==
    LET body == IF s # <<>> /\ s[1] = "-" THEN Tail(s) ELSE s
    IN  body # <<>> /\ \A i \in DOMAIN body : IsDigit(body[i])

StrToInt(s) ==
    IF s[1] = "-" THEN 0 - ParseDigits(Tail(s)) ELSE ParseDigits(s)

\* int(v) for a stored field.
int(v) == IF v.t = "str" THEN StrToInt(v.s) ELSE v.n

\* Python truthiness of session.get("email"): None and "" are both falsy.
NoEmail == ""

\* Mutant of the test of the session email: nothing is ever missing.
TruthyAlways(email) == TRUE

Truthy(email) == email # NoEmail

(***************************************************************************)
(* The data the loader reads.                                              *)
(***************************************************************************)
EmptyDict == [k \in {} |-> 0]

RawClubs ==
    << [name |-> "Club1", email |-> "club1@test.com", points |-> PyStr(<<"1", "3">>)],
       [name |-> "Club2", email |-> "club2@test.com", points |-> PyStr(<<"6">>)] >>

\* competitions.json as shipped: no ledgers, not in date order.
RawCompetitionsPlain ==
    << [name |-> "Comp2", date |-> <<"0", "0">>, numberOfPlaces |-> PyStr(<<"6">>),
        hasBookings |-> FALSE, clubBookings |-> EmptyDict],
       [name |-> "Comp1", date |-> <<"0", "1">>, numberOfPlaces |-> PyStr(<<"2", "5">>),
        hasBookings |-> FALSE, clubBookings |-> EmptyDict] >>

\* A file in which one competition already carries a ledger of zeros.
RawCompetitionsLedger ==
    << [name |-> "Comp1", date |-> <<"0", "1">>, numberOfPlaces |-> PyStr(<<"2", "5">>),
        hasBookings |-> TRUE,
        clubBookings |-> [k \in {"Club1", "Club2"} |-> 0]],
       [name |-> "Comp2", date |-> <<"0", "0">>, numberOfPlaces |-> PyStr(<<"6">>),
        hasBookings |-> FALSE, clubBookings |-> EmptyDict] >>

RawCompetitionFiles == {RawCompetitionsPlain, RawCompetitionsLedger}

ClubNames == {RawClubs[i].name : i \in DOMAIN RawClubs}

CompetitionNames == {RawCompetitionsPlain[i].name : i \in DOMAIN RawCompetitionsPlain}

\* What a request can carry.
FormClubs == ClubNames \cup {"Nobody"}

FormCompetitions == CompetitionNames \cup {"Nowhere"}

FormEmails == {RawClubs[i].email : i \in DOMAIN RawClubs} \cup {NoEmail, "ghost@test.com"}

FormPlaces == { <<"-", "6">>, <<"0">>, <<"6">>, <<"1", "2">>, <<"1", "3">>, <<"x">> }

(***************************************************************************)
(* load_clubs / load_competitions                                          *)
(***************************************************************************)
load_clubs == RawClubs

\* datetime.strptime on the fixed-width date text: the order of the
\* datetimes is the numeric order of the digits.
strptime(date_str) == ParseDigits(date_str)

\* Mutant of the sort: the list kept in file order.
Unsorted(list) == list

\* sorted(list, key=date, reverse=True): stable, equal keys keep file order.
RECURSIVE InsertByDate(_, _)
InsertByDate(sorted_list, comp) ==
    IF sorted_list = <<>> THEN <<comp>>
    ELSE IF Head(sorted_list).date >= comp.date
         THEN <<Head(sorted_list)>> \o InsertByDate(Tail(sorted_list), comp)
         ELSE <<comp>> \o sorted_list

RECURSIVE SortedByDateDesc(_)
SortedByDateDesc(list) ==
    IF list = <<>> THEN <<>>
    ELSE InsertByDate(SortedByDateDesc(SubSeq(list, 1, Len(list) - 1)), list[Len(list)])

load_competitions(raw, clock) ==
    LET parsed == [i \in DOMAIN raw |->
                     [name |-> raw[i].name,
                      date |-> strptime(raw[i].date),
                      numberOfPlaces |-> raw[i].numberOfPlaces,
                      canBeBooked |-> strptime(raw[i].date) >= clock,
                      hasBookings |-> raw[i].hasBookings,
                      clubBookings |-> raw[i].clubBookings]]
    IN  SortedByDateDesc(parsed)

(***************************************************************************)
(* Responses.  `line` is the line of server.py at which the handler left.  *)
(***************************************************************************)
Response(op, line, exc, status, description, view) ==
    [op |-> op, line |-> line, exc |-> exc, status |-> status,
     description |-> description, view |-> view]

\* What the caller can tell apart: not the handler's position.
Visible(r) == <<r.exc, r.status, r.description, r.view>>

\* The threads in which the server handles requests at the same time.
Workers == {1, 2}

\* A worker that is not between lines 189 and 191 of purchase_places.
Idle == [line |-> 0, ci |-> 0, ki |-> 0, club_name |-> "", places_required |-> 0]

Init ==
    /\ now \in 0..MaxTime
    /\ clubs = load_clubs
    /\ \E raw \in RawCompetitionFiles : competitions = load_competitions(raw, now)
    /\ session \in {NoEmail, "ghost@test.com"}
    /\ result = Response("start", 57, "none", 0, "", "")
    /\ applied = [p \in CompetitionNames \X ClubNames |-> 0]
    /\ inflight = [w \in Workers |-> Idle]
    /\ raced = FALSE

\* Mutant of the lookup: the first entry instead of None when no name matches.
FindByNameOrFirst(list, name) ==
    LET hits == {i \in DOMAIN list : list[i].name = name}
    IN  IF hits = {} THEN 1 ELSE CHOOSE i \in hits : \A j \in hits : i <= j

\* next((x for x in list if x["name"] == name), None): index of the first match, 0 for None.
FindByName(list, name) ==
    LET hits == {i \in DOMAIN list : list[i].name = name}
    IN  IF hits = {} THEN 0 ELSE CHOOSE i \in hits : \A j \in hits : i <= j

\* Mutant of the lookup by email: the first club when no email matches.
FindByEmailOrFirst(list, email) ==
    LET hits == {i \in DOMAIN list : list[i].email = email}
    IN  IF hits = {} THEN 1 ELSE CHOOSE i \in hits : \A j \in hits : i <= j

\* next((club for club in clubs if club["email"] == email), None).
FindByEmail(list, email) ==
    LET hits == {i \in DOMAIN list : list[i].email = email}
    IN  IF hits = {} THEN 0 ELSE CHOOSE i \in hits : \A j \in hits : i <= j

(***************************************************************************)
(* purchase_places                                                         *)
(***************************************************************************)
\* The ceiling written as the literal 12 in the validation.
MaxPlaces == 12

\* Mutants of the initialisation: the ledger always replaced by a fresh one,
\* or the club's entry always set back to 0.
InitBookingsWipe(competition, club_name) ==
    [competition EXCEPT
        !.hasBookings = TRUE,
        !.clubBookings = [k \in {club_name} |-> 0]]

InitBookingsReset(competition, club_name) ==
    [competition EXCEPT
        !.hasBookings = TRUE,
        !.clubBookings =
            [k \in DOMAIN competition.clubBookings \cup {club_name} |->
                IF k = club_name THEN 0 ELSE competition.clubBookings[k]]]

\* Lines 173-177: create the ledger and the club's entry when missing.
InitBookings(competition, club_name) ==
    [competition EXCEPT
        !.hasBookings = TRUE,
        !.clubBookings =
            IF club_name \in DOMAIN competition.clubBookings
            THEN competition.clubBookings
            ELSE [k \in DOMAIN competition.clubBookings \cup {club_name} |->
                    IF k = club_name THEN 0 ELSE competition.clubBookings[k]]]

\* Mutants of the validation: one check dropped, or one comparison off by one.
InvalidBookingNoPlacesCheck(places_required, club, competition, club_name) ==
    \/ places_required > MaxPlaces
    \/ places_required > int(club.points)
    \/ competition.clubBookings[club_name] + places_required > MaxPlaces

InvalidBookingNoPointsCheck(places_required, club, competition, club_name) ==
    \/ places_required > MaxPlaces
    \/ places_required > int(competition.numberOfPlaces)
    \/ competition.clubBookings[club_name] + places_required > MaxPlaces

InvalidBookingNoCumulativeCheck(places_required, club, competition, club_name) ==
    \/ places_required > MaxPlaces
    \/ places_required > int(club.points)
    \/ places_required > int(competition.numberOfPlaces)

InvalidBookingOffByOne(places_required, club, competition, club_name) ==
    \/ places_required > MaxPlaces
    \/ places_required >= int(club.points)
    \/ places_required > int(competition.numberOfPlaces)
    \/ competition.clubBookings[club_name] + places_required > MaxPlaces

\* Mutant of the validation: a competition that cannot be booked is refused.
InvalidBookingWhenClosed(places_required, club, competition, club_name) ==
    \/ ~competition.canBeBooked
    \/ places_required > MaxPlaces
    \/ places_required > int(club.points)
    \/ places_required > int(competition.numberOfPlaces)
    \/ competition.clubBookings[club_name] + places_required > MaxPlaces

\* Mutant of the validation: every request is granted.
InvalidBookingNever(places_required, club, competition, club_name) == FALSE

\* Lines 180-185: the condition under which BadRequest is raised.
InvalidBooking(places_required, club, competition, club_name) ==
    \/ places_required > MaxPlaces
    \/ places_required > int(club.points)
    \/ places_required > int(competition.numberOfPlaces)
    \/ competition.clubBookings[club_name] + places_required > MaxPlaces

\* Mutant of the booking: the ledger entry replaced by the count instead of
\* raised by it.
BookedCompetitionOverwrite(competition, club_name, places_required) ==
    [competition EXCEPT
        !.clubBookings[club_name] = places_required,
        !.numberOfPlaces = PyNum(int(@) - places_required)]

\* Mutant of the booking: the places are taken but the ledger is not written.
BookedCompetitionUnrecorded(competition, club_name, places_required) ==
    [competition EXCEPT !.numberOfPlaces = PyNum(int(@) - places_required)]

\* Mutant of the booking: the count is added to every club's entry.
BookedCompetitionForAll(competition, club_name, places_required) ==
    [competition EXCEPT
        !.clubBookings = [k \in DOMAIN competition.clubBookings |->
                             competition.clubBookings[k] + places_required],
        !.numberOfPlaces = PyNum(int(@) - places_required)]

\* Lines 189 and 191: the competition after the booking.
BookedCompetition(competition, club_name, places_required) ==
    [competition EXCEPT
        !.clubBookings[club_name] = @ + places_required,
        !.numberOfPlaces = PyNum(int(@) - places_required)]

\* Mutant of the charge: the points are written back without the deduction.
ChargedClubUncharged(club, places_required) ==
    [club EXCEPT !.points = PyNum(int(@))]

\* Mutant of the charge: the points are taken twice.
ChargedClubTwice(club, places_required) ==
    [club EXCEPT !.points = PyNum(int(@) - 2 * places_required)]

\* Line 190: the club after the booking.
ChargedClub(club, places_required) ==
    [club EXCEPT !.points = PyNum(int(@) - places_required)]

\* Line 159: raised outside the try block, so with werkzeug's own description.
PurchaseUnauthorized ==
    Response("purchase_places", 159, "Unauthorized", 401, "default", "")

\* Line 164: int() of a non-numeric form value; nothing catches ValueError.
PurchaseValueError ==
    Response("purchase_places", 164, "ValueError", 500, "default", "")

\* Line 169: competition is None and is subscripted; nothing catches TypeError.
PurchaseTypeError ==
    Response("purchase_places", 169, "TypeError", 500, "default", "")

\* Lines 171 and 200: BadRequest re-raised with the handler's description.
PurchaseNotFound ==
    Response("purchase_places", 171, "BadRequest", 400, "Invalid data provided.", "")

\* Lines 186 and 200.
PurchaseInvalid ==
    Response("purchase_places", 186, "BadRequest", 400, "Invalid data provided.", "")

\* Lines 193-194.
PurchaseDone ==
    Response("purchase_places", 194, "none", 302, "Great - booking complete!", "show_summary")

\* The ledger entry a request would read, 0 when it is not there yet.
Booked(competition, club_name) ==
    IF club_name \in DOMAIN competition.clubBookings
    THEN competition.clubBookings[club_name] ELSE 0

\* The requests the environment submits: negative counts only down to -MaxDebt.
Submitted(competition_name, club_name, places) ==
    LET ci == FindByName(competitions, competition_name)
    IN  (IsNumeric(places) /\ StrToInt(places) < 0 /\ ci # 0)
            => Booked(competitions[ci], club_name) + StrToInt(places) >= 0 - MaxDebt

\* What one call leaves behind: the response and the two lists.
Outcome(response, clubs_after, competitions_after) ==
    [result |-> response, clubs |-> clubs_after, competitions |-> competitions_after]

\* Lines 158-200, the handler as a function of the session email, the two
\* lists and the form.
PurchaseOn(email, club_list, competition_list, competition_name, club_name, places) ==
    IF ~Truthy(email)
    THEN Outcome(PurchaseUnauthorized, club_list, competition_list)
    ELSE IF ~IsNumeric(places)
    THEN Outcome(PurchaseValueError, club_list, competition_list)
    ELSE
     LET places_required == StrToInt(places)
         ci == FindByName(competition_list, competition_name)
         ki == FindByName(club_list, club_name)
     IN  IF ci = 0
         THEN Outcome(PurchaseTypeError, club_list, competition_list)
         ELSE IF ki = 0
         THEN Outcome(PurchaseNotFound, club_list, competition_list)
         ELSE
          LET competition == InitBookings(competition_list[ci], club_name)
              club == club_list[ki]
          IN  IF InvalidBooking(places_required, club, competition, club_name)
              THEN Outcome(PurchaseInvalid, club_list,
                           [competition_list EXCEPT ![ci] = competition])
              ELSE Outcome(PurchaseDone,
                           [club_list EXCEPT ![ki] = ChargedClub(club, places_required)],
                           [competition_list EXCEPT ![ci] =
                               BookedCompetition(competition, club_name, places_required)])

\* Mutant of the handler: a session may only buy for the club whose email
\* it holds.
PurchaseForSessionClub(competition_name, club_name, places) ==
    PurchaseOn(IF FindByEmail(clubs, session) # 0
                  /\ FindByEmail(clubs, session) = FindByName(clubs, club_name)
               THEN session ELSE NoEmail,
               clubs, competitions, competition_name, club_name, places)

\* The handler on the server's own session and lists.
Purchase(competition_name, club_name, places) ==
    PurchaseOn(session, clubs, competitions, competition_name, club_name, places)

purchase_places(competition_name, club_name, places) ==
    LET out == Purchase(competition_name, club_name, places)
    IN  /\ Submitted(competition_name, club_name, places)
        /\ result' = out.result
        /\ clubs' = out.clubs
        /\ competitions' = out.competitions
        /\ applied' = IF out.result = PurchaseDone
                      THEN [applied EXCEPT ![<<competition_name, club_name>>] =
                              @ + StrToInt(places)]
                      ELSE applied
        /\ UNCHANGED <<session, now, inflight, raced>>

(***************************************************************************)
(* show_summary                                                            *)
(***************************************************************************)
\* Lines 76-89: the response of the login form and the session email it
\* leaves (flash() hands the message to the page the caller is sent to).
Login(email) ==
    IF ~Truthy(email)
    THEN [result |-> Response("login", 79, "none", 302, "Empty field.", "index"),
          session |-> session]
    ELSE IF FindByEmail(clubs, email) = 0
    THEN [result |-> Response("login", 85, "none", 302, "Email does not exist.", "index"),
          session |-> session]
    ELSE [result |-> Response("login", 89, "none", 302, "", "show_summary"),
          session |-> email]

\* POST /show_summary: the login form.
login(email) ==
    /\ result' = Login(email).result
    /\ session' = Login(email).session
    /\ UNCHANGED <<clubs, competitions, now, applied, inflight, raced>>

\* Mutant of the recomputation: a competition dated now is closed.
RefreshedStatusStrict(list, clock) ==
    [i \in DOMAIN list |-> [list[i] EXCEPT !.canBeBooked = list[i].date > clock]]

\* Mutant of the recomputation: the comparison the other way round.
RefreshedStatusInverted(list, clock) ==
    [i \in DOMAIN list |-> [list[i] EXCEPT !.canBeBooked = list[i].date <= clock]]

\* Mutant of the recomputation: the ledgers are emptied as well.
RefreshedStatusClearingLedgers(list, clock) ==
    [i \in DOMAIN list |->
        [list[i] EXCEPT !.canBeBooked = list[i].date >= clock,
                        !.clubBookings = EmptyDict]]

\* Lines 102-104: every competition's flag recomputed against one clock value.
RefreshedStatus(list, clock) ==
    [i \in DOMAIN list |-> [list[i] EXCEPT !.canBeBooked = list[i].date >= clock]]

\* Mutant of the status read: the flags are recomputed before the session
\* is looked at.
ShowSummaryRefreshingFirst ==
    IF ~Truthy(session)
    THEN [result |-> Response("show_summary", 94, "Unauthorized", 401,
                              "You must be connected.", ""),
          competitions |-> RefreshedStatus(competitions, now)]
    ELSE IF FindByEmail(clubs, session) = 0
    THEN [result |-> Response("show_summary", 99, "Unauthorized", 401,
                              "You must have an account.", ""),
          competitions |-> RefreshedStatus(competitions, now)]
    ELSE [result |-> Response("show_summary", 107, "none", 200, "", "welcome.html"),
          competitions |-> RefreshedStatus(competitions, now)]

\* Lines 91-107: the response of the status read and the competitions it
\* leaves.
ShowSummary ==
    IF ~Truthy(session)
    THEN [result |-> Response("show_summary", 94, "Unauthorized", 401,
                              "You must be connected.", ""),
          competitions |-> competitions]
    ELSE IF FindByEmail(clubs, session) = 0
    THEN [result |-> Response("show_summary", 99, "Unauthorized", 401,
                              "You must have an account.", ""),
          competitions |-> competitions]
    ELSE [result |-> Response("show_summary", 107, "none", 200, "", "welcome.html"),
          competitions |-> RefreshedStatus(competitions, now)]

\* GET /show_summary: the status read.
show_summary ==
    /\ result' = ShowSummary.result
    /\ competitions' = ShowSummary.competitions
    /\ UNCHANGED <<clubs, session, now, applied, inflight, raced>>

(***************************************************************************)
(* book                                                                    *)
(***************************************************************************)
\* Mutant of the date test: a competition dated now is over.
ExpiredOrToday(competition, clock) == competition.date <= clock

\* Line 130: the condition under which the bare BadRequest is raised.
Expired(competition, clock) == competition.date < clock

\* Lines 125 and 136.
BookUnauthorized ==
    Response("book", 136, "Unauthorized", 401, "You must be connected.", "")

\* Lines 127-128 and 139: [...][0] raises IndexError when no name matches.
BookNotFound ==
    Response("book", 139, "BadRequest", 400, "Invalid data provided", "")

\* Line 131: neither except clause catches it, so werkzeug's own description.
BookExpired ==
    Response("book", 131, "BadRequest", 400, "default", "")

\* Line 133.
BookDone ==
    Response("book", 133, "none", 200, "", "booking.html")

\* Lines 124-139: the response of book for the session and the two names.
Book(competition, club) ==
    IF ~Truthy(session)
    THEN BookUnauthorized
    ELSE IF FindByName(clubs, club) = 0 \/ FindByName(competitions, competition) = 0
    THEN BookNotFound
    ELSE IF Expired(competitions[FindByName(competitions, competition)], now)
    THEN BookExpired
    ELSE BookDone

\* Mutant of book: the handler stores the flags it has just worked out.
bookRefreshing(competition, club) ==
    /\ result' = Book(competition, club)
    /\ competitions' = RefreshedStatus(competitions, now)
    /\ UNCHANGED <<clubs, session, now, applied, inflight, raced>>

book(competition, club) ==
    /\ result' = Book(competition, club)
    /\ UNCHANGED <<clubs, competitions, session, now, applied, inflight, raced>>

(***************************************************************************)
(* logout, display_club_points and the passing of time             *)
(***************************************************************************)
\* Mutant of logout: the caller is redirected but the email stays.
logoutKeepingEmail ==
    /\ result' = Response("logout", 210, "none", 302, "", "index")
    /\ UNCHANGED <<clubs, competitions, session, now, applied, inflight, raced>>

logout ==
    /\ session' = NoEmail
    /\ result' = Response("logout", 210, "none", 302, "", "index")
    /\ UNCHANGED <<clubs, competitions, now, applied, inflight, raced>>

\* Lines 222-225: the response of the points table.
DisplayClubPoints ==
    IF ~Truthy(session)
    THEN Response("display_club_points", 223, "Unauthorized", 401,
                  "You must be connected.", "")
    ELSE Response("display_club_points", 225, "none", 200, "", "clubs.html")

display_club_points ==
    /\ result' = DisplayClubPoints
    /\ UNCHANGED <<clubs, competitions, session, now, applied, inflight, raced>>

Tick ==
    /\ now < MaxTime
    /\ now' = now + 1
    /\ UNCHANGED <<clubs, competitions, session, result, applied, inflight, raced>>

PurchaseRequest ==
    \E competition_name \in FormCompetitions, club_name \in FormClubs, places \in FormPlaces :
        purchase_places(competition_name, club_name, places)

LoginRequest == \E email \in FormEmails : login(email)

BookRequest ==
    \E competition \in FormCompetitions, club \in FormClubs : book(competition, club)

Next ==
    \/ PurchaseRequest
    \/ LoginRequest
    \/ show_summary
    \/ BookRequest
    \/ logout
    \/ display_club_points
    \/ Tick

Spec == Init /\ [][Next]_vars

\* The server serving only purchases and the logins and logouts between
\* them: the sequences of purchase_places calls made one at a time.
PurchaseNext ==
    \/ PurchaseRequest
    \/ LoginRequest
    \/ logout

PurchaseSpec == Init /\ [][PurchaseNext]_vars

(***************************************************************************)
(* purchase_places served by threads: nothing in the handler locks the     *)
(* two lists, so another request can run between any two of its            *)
(* statements.  Lines 158-186 are taken as one step, and each of the       *)
(* writes of lines 189, 190 and 191 as a step of its own.                  *)
(***************************************************************************)
\* Lines 158-186: a request that fails is answered at once; one that passes
\* the validation holds references to its club and competition (their
\* places in the lists) and goes on to line 189.
validate(w, competition_name, club_name, places) ==
    LET out == Purchase(competition_name, club_name, places)
        ci  == FindByName(competitions, competition_name)
        ki  == FindByName(clubs, club_name)
    IN  /\ inflight[w] = Idle
        /\ Submitted(competition_name, club_name, places)
        /\ IF out.result # PurchaseDone
           THEN /\ result' = out.result
                /\ competitions' = out.competitions
                /\ UNCHANGED <<inflight, raced>>
           ELSE /\ competitions' =
                     [competitions EXCEPT ![ci] = InitBookings(competitions[ci], club_name)]
                /\ inflight' = [inflight EXCEPT ![w] =
                                  [line |-> 189, ci |-> ci, ki |-> ki,
                                   club_name |-> club_name,
                                   places_required |-> StrToInt(places)]]
                /\ raced' = (raced \/ \E v \in Workers : inflight[v] # Idle)
                /\ UNCHANGED result
        /\ UNCHANGED <<clubs, session, now, applied>>

\* Line 189: competition["clubBookings"][club["name"]] += places_required.
add_booking(w) ==
    /\ inflight[w].line = 189
    /\ competitions' = [competitions EXCEPT
                           ![inflight[w].ci].clubBookings[inflight[w].club_name] =
                               @ + inflight[w].places_required]
    /\ inflight' = [inflight EXCEPT ![w].line = 190]
    /\ UNCHANGED <<clubs, session, now, result, applied, raced>>

\* Line 190: club["points"] = int(club["points"]) - places_required.
deduct_points(w) ==
    /\ inflight[w].line = 190
    /\ clubs' = [clubs EXCEPT ![inflight[w].ki].points =
                                PyNum(int(@) - inflight[w].places_required)]
    /\ inflight' = [inflight EXCEPT ![w].line = 191]
    /\ UNCHANGED <<competitions, session, now, result, applied, raced>>

\* Lines 191-194: the places are taken and the caller is redirected.
deduct_places(w) ==
    /\ inflight[w].line = 191
    /\ competitions' = [competitions EXCEPT
                           ![inflight[w].ci].numberOfPlaces =
                               PyNum(int(@) - inflight[w].places_required)]
    /\ result' = PurchaseDone
    /\ applied' = [applied EXCEPT
                      ![<<competitions[inflight[w].ci].name, inflight[w].club_name>>] =
                          @ + inflight[w].places_required]
    /\ inflight' = [inflight EXCEPT ![w] = Idle]
    /\ UNCHANGED <<clubs, session, now, raced>>

\* The purchases sent at the same time: known names, a count that can be
\* granted and one that cannot.
ThreadedPlaces == { <<"6">>, <<"1", "3">> }

ValidateRequest ==
    \E w \in Workers, competition_name \in CompetitionNames, club_name \in ClubNames,
       places \in ThreadedPlaces :
        validate(w, competition_name, club_name, places)

ThreadedNext ==
    \/ ValidateRequest
    \/ \E w \in Workers : add_booking(w)
    \/ \E w \in Workers : deduct_points(w)
    \/ \E w \in Workers : deduct_places(w)
    \/ LoginRequest
    \/ show_summary
    \/ display_club_points

ThreadedSpec == Init /\ [][ThreadedNext]_vars

(***************************************************************************)
(* Readers of the store used by the properties.                            *)
(***************************************************************************)
CompetitionIn(list, name) == list[FindByName(list, name)]

ClubIn(list, name) == list[FindByName(list, name)]

PlacesLeft(list, name) == int(CompetitionIn(list, name).numberOfPlaces)

PointsLeft(list, name) == int(ClubIn(list, name).points)

\* No purchase was ever applied: every numeric field is still the loaded text.
NeverWritten ==
    /\ \A i \in DOMAIN clubs : clubs[i].points.t = "str"
    /\ \A i \in DOMAIN competitions : competitions[i].numberOfPlaces.t = "str"

(***************************************************************************)
(* Properties of the booking rule.                                         *)
(***************************************************************************)
\* C1: in every state reached from a loaded state by purchases made one at
\* a time, with any integer place count and any names, every competition's
\* numberOfPlaces is >= 0.
C1_PlacesNonNegative ==
    \A i \in DOMAIN competitions : int(competitions[i].numberOfPlaces) >= 0

\* A purchase took the last places of a competition.
C1_Witness ==
    /\ result = PurchaseDone
    /\ \E i \in DOMAIN competitions :
          /\ competitions[i].numberOfPlaces = PyNum(0)
          /\ \E c \in DOMAIN competitions[i].clubBookings :
                competitions[i].clubBookings[c] > 0

\* C2: in every state reached from a loaded state by purchases made one at
\* a time, with any integer place count and any names, every club's points
\* is >= 0.
C2_PointsNonNegative ==
    \A i \in DOMAIN clubs : int(clubs[i].points) >= 0

\* A purchase spent the last points of a club.
C2_Witness ==
    /\ result = PurchaseDone
    /\ \E i \in DOMAIN clubs :
          /\ clubs[i].points = PyNum(0)
          /\ \E x \in CompetitionNames : applied[<<x, clubs[i].name>>] > 0

\* C3: for every (club, competition) pair the ledger value never exceeds 12,
\* and neither does the sum of the place counts of the purchases applied for
\* the pair, even when each single request is <= 12.
C3_LedgerAtMostTwelve ==
    /\ \A i \in DOMAIN competitions : \A c \in DOMAIN competitions[i].clubBookings :
          competitions[i].clubBookings[c] <= 12
    /\ \A x \in CompetitionNames, c \in ClubNames : applied[<<x, c>>] <= 12

\* A pair stands at the ceiling, the club still holds points, places remain,
\* and a further request for the pair or another was turned down.
C3_Witness ==
    /\ result = PurchaseInvalid
    /\ \E i \in DOMAIN competitions, k \in DOMAIN clubs :
          /\ clubs[k].name \in DOMAIN competitions[i].clubBookings
          /\ competitions[i].clubBookings[clubs[k].name] = 12
          /\ applied[<<competitions[i].name, clubs[k].name>>] = 12
          /\ int(clubs[k].points) >= 6
          /\ int(competitions[i].numberOfPlaces) >= 6

\* A step in which purchase_places was served (every other handler leaves
\* its own name in the response, and the clock leaves the response alone).
PurchaseStep == result'.op = "purchase_places" /\ now' = now

\* C4: for an existing club and an existing competition the purchase
\* succeeds if and only if, on the state before the call, requested <=
\* points, requested <= numberOfPlaces, requested <= 12 and ledger +
\* requested <= 12; otherwise it fails with BadRequest (400).
C4_SucceedsIffAllFour ==
    \A x \in CompetitionNames, c \in ClubNames, p \in FormPlaces :
       (Truthy(session) /\ IsNumeric(p)) =>
          LET out == Purchase(x, c, p).result
              r   == StrToInt(p)
              ok  == /\ r <= PointsLeft(clubs, c)
                     /\ r <= PlacesLeft(competitions, x)
                     /\ r <= 12
                     /\ Booked(CompetitionIn(competitions, x), c) + r <= 12
          IN  /\ (out.exc = "none" /\ out.status = 302) <=> ok
              /\ ~ok => (out.exc = "BadRequest" /\ out.status = 400)

\* Requests exactly at each boundary were accepted: one club spent all its
\* points on all the places of a competition, another pair stands at 12.
C4_Witness ==
    /\ result = PurchaseDone
    /\ \E k \in DOMAIN clubs, i \in DOMAIN competitions :
          /\ clubs[k].points = PyNum(0)
          /\ competitions[i].numberOfPlaces = PyNum(0)
          /\ applied[<<competitions[i].name, clubs[k].name>>] = 6
    /\ \E x \in CompetitionNames, c \in ClubNames : applied[<<x, c>>] = 12

\* C5: a successful purchase of r places by club c for competition x adds r
\* to the ledger entry and takes r from the club's points and from the
\* competition's places, all three together; no completed call changes only
\* some of the three.
C5_AllThreeTogether ==
    \A x \in CompetitionNames, c \in ClubNames, p \in FormPlaces :
       LET out    == Purchase(x, c, p)
           ledger == Booked(CompetitionIn(out.competitions, x), c)
                        - Booked(CompetitionIn(competitions, x), c)
           points == PointsLeft(clubs, c) - PointsLeft(out.clubs, c)
           places == PlacesLeft(competitions, x) - PlacesLeft(out.competitions, x)
       IN  /\ ledger = points
           /\ points = places
           /\ out.result = PurchaseDone => ledger = StrToInt(p)

\* From ledger 0, points 13 and 25 places: 6 booked, 7 points and 19 places left.
C5_Witness ==
    /\ result = PurchaseDone
    /\ Booked(CompetitionIn(competitions, "Comp1"), "Club1") = 6
    /\ ClubIn(clubs, "Club1").points = PyNum(7)
    /\ CompetitionIn(competitions, "Comp1").numberOfPlaces = PyNum(19)

\* C6 as stated: when a purchase fails for an unknown name or an invalid
\* booking, the clubs and competitions, ledgers and their entries included,
\* are identical to what they were before the call.
C6_FailureLeavesStoreIdentical ==
    [][(PurchaseStep /\ result'.line \in {169, 171, 186}) =>
          (clubs' = clubs /\ competitions' = competitions)]_vars

\* C6 as amended: a failed purchase leaves every club and every field and
\* ledger value of every competition as it was; with an unknown name, no
\* session or an unreadable count nothing changes at all, and a rejected
\* booking can only create the requested competition's ledger and the
\* requested club's entry in it, at 0, when they were missing.
C6_FailureOnlyInitialises ==
    \A x \in FormCompetitions, c \in FormClubs, p \in FormPlaces :
       LET out == Purchase(x, c, p)
       IN  out.result # PurchaseDone =>
            /\ out.clubs = clubs
            /\ out.result # PurchaseInvalid => out.competitions = competitions
            /\ out.result = PurchaseInvalid =>
                 /\ DOMAIN out.competitions = DOMAIN competitions
                 /\ \A i \in DOMAIN competitions :
                      LET old == competitions[i]
                          new == out.competitions[i]
                      IN  IF old.name # x
                          THEN new = old
                          ELSE /\ new.name = old.name
                               /\ new.date = old.date
                               /\ new.canBeBooked = old.canBeBooked
                               /\ new.numberOfPlaces = old.numberOfPlaces
                               /\ new.hasBookings
                               /\ DOMAIN new.clubBookings = DOMAIN old.clubBookings \cup {c}
                               /\ \A k \in DOMAIN old.clubBookings :
                                     new.clubBookings[k] = old.clubBookings[k]
                               /\ c \notin DOMAIN old.clubBookings => new.clubBookings[c] = 0

\* Nothing was ever bought, yet a competition loaded without a ledger now
\* has one, holding the entry of the club whose request was turned down.
C6_Witness ==
    /\ result = PurchaseInvalid
    /\ NeverWritten
    /\ CompetitionIn(competitions, "Comp2").hasBookings
    /\ DOMAIN CompetitionIn(competitions, "Comp2").clubBookings = {"Club2"}
    /\ CompetitionIn(competitions, "Comp2").clubBookings["Club2"] = 0

\* C7: a purchase rejected as an invalid booking leaves every club's points,
\* every competition's numberOfPlaces and every existing ledger value
\* unchanged, and afterwards the entry of the requested pair exists with the
\* value it had (0 when the pair had none).
C7_RejectedKeepsValues ==
    \A x \in CompetitionNames, c \in ClubNames, p \in FormPlaces :
       LET out == Purchase(x, c, p)
       IN  out.result = PurchaseInvalid =>
            /\ \A k \in ClubNames : PointsLeft(out.clubs, k) = PointsLeft(clubs, k)
            /\ \A y \in CompetitionNames :
                  /\ PlacesLeft(out.competitions, y) = PlacesLeft(competitions, y)
                  /\ \A k \in DOMAIN CompetitionIn(competitions, y).clubBookings :
                        /\ k \in DOMAIN CompetitionIn(out.competitions, y).clubBookings
                        /\ CompetitionIn(out.competitions, y).clubBookings[k]
                              = CompetitionIn(competitions, y).clubBookings[k]
            /\ c \in DOMAIN CompetitionIn(out.competitions, x).clubBookings
            /\ CompetitionIn(out.competitions, x).clubBookings[c]
                  = Booked(CompetitionIn(competitions, x), c)

\* A club with 12 places booked in one competition and 1 point left was
\* turned down: the 12 stands, and its entry in the other competition is 0.
C7_Witness ==
    /\ result = PurchaseInvalid
    /\ Booked(CompetitionIn(competitions, "Comp1"), "Club1") = 12
    /\ PointsLeft(clubs, "Club1") = 1
    /\ "Club1" \in DOMAIN CompetitionIn(competitions, "Comp2").clubBookings
    /\ CompetitionIn(competitions, "Comp2").clubBookings["Club1"] = 0
    /\ applied[<<"Comp2", "Club1">>] = 0
    /\ PlacesLeft(competitions, "Comp2") = 6

\* C8: a purchase naming a competition that matches none fails the way the
\* other unknown-name and invalid requests are reported (BadRequest, 400,
\* the handler's description), and mutates no club and no competition.
C8_UnknownCompetitionIsNotFound ==
    [][(PurchaseStep /\ Truthy(session)) =>
          \A x \in FormCompetitions \ CompetitionNames, c \in FormClubs, p \in FormPlaces :
             (IsNumeric(p) /\ purchase_places(x, c, p)) =>
                /\ Visible(result') = Visible(PurchaseNotFound)
                /\ clubs' = clubs
                /\ competitions' = competitions]_vars

\* C9: a purchase naming an existing competition and a club name that
\* matches none fails as not found (BadRequest, 400) before any
\* initialisation: no ledger is created, no entry is added, points and
\* places are unchanged.
C9_UnknownClubIsNotFound ==
    \A x \in CompetitionNames, c \in FormClubs \ ClubNames, p \in FormPlaces :
       (Truthy(session) /\ IsNumeric(p)) =>
          LET out == Purchase(x, c, p)
          IN  /\ out.result.line = 171
              /\ out.result.exc = "BadRequest"
              /\ out.result.status = 400
              /\ out.clubs = clubs
              /\ out.competitions = competitions

\* An unknown club was turned away and no competition has a ledger.
C9_Witness ==
    /\ result = PurchaseNotFound
    /\ NeverWritten
    /\ \A i \in DOMAIN competitions :
          ~competitions[i].hasBookings /\ DOMAIN competitions[i].clubBookings = {}

\* C10: the caller can tell the error kinds apart: what a purchase reports
\* for an unknown name differs from what it reports for an invalid booking,
\* and what book reports for an unknown name differs from what it reports
\* for an expired competition.
C10_ErrorKindsDistinguishable ==
    /\ (result.op = "purchase_places" /\ result.line \in {169, 171})
          => Visible(result) # Visible(PurchaseInvalid)
    /\ (result.op = "book" /\ result.line = 139)
          => Visible(result) # Visible(BookExpired)

(***************************************************************************)
(* Properties of the dates and of book.                                    *)
(***************************************************************************)
\* The list with the named competition given another date and flag.
Redated(list, name, date, flag) ==
    [i \in DOMAIN list |->
        IF list[i].name = name
        THEN [list[i] EXCEPT !.date = date, !.canBeBooked = flag]
        ELSE list[i]]

\* C12: purchase_places does not depend on the competition's date or
\* canBeBooked flag: whatever date and flag the competition had instead, the
\* same request gets the same response and makes the same changes, and for a
\* competition whose date is before now a request satisfying the four
\* constraints is accepted and applied, with no book call before it.
C12_IgnoresDateAndFlag ==
    \A x \in CompetitionNames, c \in FormClubs, p \in FormPlaces :
       LET out == Purchase(x, c, p)
       IN  /\ \A d \in 0..MaxTime, f \in BOOLEAN :
                LET other == PurchaseOn(session, clubs, Redated(competitions, x, d, f),
                                        x, c, p)
                IN  /\ other.result = out.result
                    /\ other.clubs = out.clubs
                    /\ other.competitions = Redated(out.competitions, x, d, f)
           /\ ( /\ Truthy(session) /\ IsNumeric(p) /\ c \in ClubNames
                /\ Expired(CompetitionIn(competitions, x), now)
                /\ StrToInt(p) <= PointsLeft(clubs, c)
                /\ StrToInt(p) <= PlacesLeft(competitions, x)
                /\ StrToInt(p) <= 12
                /\ Booked(CompetitionIn(competitions, x), c) + StrToInt(p) <= 12 )
                => /\ out.result = PurchaseDone
                   /\ Booked(CompetitionIn(out.competitions, x), c)
                         = Booked(CompetitionIn(competitions, x), c) + StrToInt(p)
                   /\ PointsLeft(out.clubs, c) = PointsLeft(clubs, c) - StrToInt(p)
                   /\ PlacesLeft(out.competitions, x)
                         = PlacesLeft(competitions, x) - StrToInt(p)

\* Six places were bought in a competition that was over when the server
\* loaded it and is flagged as not bookable.
C12_Witness ==
    /\ result = PurchaseDone
    /\ Expired(CompetitionIn(competitions, "Comp2"), now)
    /\ ~CompetitionIn(competitions, "Comp2").canBeBooked
    /\ applied[<<"Comp2", "Club1">>] = 6
    /\ PlacesLeft(competitions, "Comp2") = 0

BookStep == result'.op = "book" /\ now' = now

\* C14: book never changes state: whatever its outcome, every club, every
\* competition (places, ledger, canBeBooked flag) and the session are the
\* same after the call as before.
C14_BookChangesNothing ==
    [][BookStep => (clubs' = clubs /\ competitions' = competitions /\ session' = session)]_vars

\* book accepted a competition dated now, after a purchase, while the other
\* competition's flag is out of date: the flags were not touched.
C14_Witness ==
    /\ result = BookDone
    /\ now = 1
    /\ CompetitionIn(competitions, "Comp2").canBeBooked
    /\ applied[<<"Comp1", "Club1">>] = 6

\* Every flag agrees with the clock.
FlagsFresh(list, clock) ==
    \A i \in DOMAIN list : list[i].canBeBooked = (list[i].date >= clock)

\* C15: right after the load and right after every authorized status read,
\* every competition has canBeBooked = (date >= now) for the clock value of
\* that operation, so canBeBooked is true when date equals now.
C15_FlagsFreshAfterRead ==
    /\ FlagsFresh(competitions, now)
    /\ [][(result'.op = "show_summary" /\ result'.line = 107 /\ now' = now)
             => FlagsFresh(competitions', now)]_vars

\* A status read after the clock moved: the competition dated now is open
\* and the one dated before is closed.
C15_Witness ==
    /\ result.op = "show_summary"
    /\ result.line = 107
    /\ now = 1
    /\ CompetitionIn(competitions, "Comp1").date = now
    /\ CompetitionIn(competitions, "Comp1").canBeBooked
    /\ ~CompetitionIn(competitions, "Comp2").canBeBooked
    /\ applied[<<"Comp2", "Club2">>] = 6

\* C16: after the load the competition list is ordered by date, most recent
\* first, and no later operation changes the order or the membership of the
\* list.
C16_OrderedAndFixed ==
    /\ \A i, j \in DOMAIN competitions :
          i < j => competitions[i].date >= competitions[j].date
    /\ [i \in DOMAIN competitions |-> competitions[i].name] = <<"Comp1", "Comp2">>
    /\ [i \in DOMAIN competitions |-> competitions[i].date] = <<1, 0>>

\* The file lists Comp2 first; after purchases in both competitions and a
\* status read, Comp1 is still first.
C16_Witness ==
    /\ RawCompetitionsPlain[1].name = "Comp2"
    /\ result.op = "show_summary"
    /\ result.line = 107
    /\ applied[<<"Comp2", "Club1">>] = 6
    /\ applied[<<"Comp1", "Club1">>] = 6
    /\ competitions[1].name = "Comp1"

(***************************************************************************)
(* Properties of the ledger.                                               *)
(***************************************************************************)
\* C17: ledger initialisation is idempotent.  A purchase for a pair with no
\* entry creates the entry at 0 before validating (it is there, at 0, after
\* a rejected booking, and equal to r after a first successful purchase of
\* r); a purchase for a pair that has an entry never resets or replaces it
\* (it keeps its value, raised by r on success); and once an entry exists
\* it exists in every later state.
C17_InitialisationIdempotent ==
    /\ [](\A x \in CompetitionNames, c \in ClubNames, p \in FormPlaces :
            (Truthy(session) /\ IsNumeric(p)) =>
               LET out  == Purchase(x, c, p)
                   old  == CompetitionIn(competitions, x).clubBookings
                   new  == CompetitionIn(out.competitions, x).clubBookings
                   gain == IF out.result = PurchaseDone THEN StrToInt(p) ELSE 0
               IN  /\ out.result \in {PurchaseDone, PurchaseInvalid}
                   /\ c \in DOMAIN new
                   /\ c \notin DOMAIN old => new[c] = gain
                   /\ c \in DOMAIN old => new[c] = old[c] + gain
                   /\ \A k \in DOMAIN old \ {c} : k \in DOMAIN new /\ new[k] = old[k])
    /\ [][\A i \in DOMAIN competitions :
             /\ competitions'[i].name = competitions[i].name
             /\ competitions[i].hasBookings => competitions'[i].hasBookings
             /\ DOMAIN competitions[i].clubBookings
                    \subseteq DOMAIN competitions'[i].clubBookings]_vars

\* A competition loaded without a ledger holds the entry of a club whose
\* only request was rejected, at 0, and the entry of a club whose first
\* purchase was of 6 places, at 6.
C17_Witness ==
    /\ result = PurchaseDone
    /\ DOMAIN CompetitionIn(competitions, "Comp2").clubBookings = {"Club1", "Club2"}
    /\ CompetitionIn(competitions, "Comp2").clubBookings["Club1"] = 0
    /\ CompetitionIn(competitions, "Comp2").clubBookings["Club2"] = 6
    /\ applied[<<"Comp2", "Club1">>] = 0
    /\ applied[<<"Comp2", "Club2">>] = 6

\* C18: for every (club, competition) pair, all of which start with an
\* entry at 0 or with none, the ledger entry always equals the sum of the
\* place counts of the successful purchases made for the pair; failed
\* purchases contribute nothing.
C18_LedgerIsSumOfPurchases ==
    \A x \in CompetitionNames, c \in ClubNames :
       /\ Booked(CompetitionIn(competitions, x), c) = applied[<<x, c>>]
       /\ c \in DOMAIN CompetitionIn(competitions, x).clubBookings
            => CompetitionIn(competitions, x).clubBookings[c] = applied[<<x, c>>]

\* One pair bought 6 and 6, another bought -6, and the last request of all
\* was rejected.
C18_Witness ==
    /\ result = PurchaseInvalid
    /\ applied[<<"Comp1", "Club1">>] = 12
    /\ applied[<<"Comp1", "Club2">>] = 0 - 6
    /\ CompetitionIn(competitions, "Comp1").clubBookings["Club1"] = 12
    /\ CompetitionIn(competitions, "Comp1").clubBookings["Club2"] = 0 - 6

RECURSIVE Total(_, _)
Total(f, S) ==
    IF S = {} THEN 0
    ELSE LET e == CHOOSE e \in S : TRUE IN f[e] + Total(f, S \ {e})

\* What the lists show: every club has paid as many points as its ledger
\* entries add up to, and every competition has given as many places as
\* its ledger adds up to.
NoPartialPurchase ==
    /\ \A c \in ClubNames :
          PointsLeft(load_clubs, c) - PointsLeft(clubs, c)
             = Total([x \in CompetitionNames |-> Booked(CompetitionIn(competitions, x), c)],
                     CompetitionNames)
    /\ \A x \in CompetitionNames :
          PlacesLeft(load_competitions(RawCompetitionsPlain, 0), x)
                - PlacesLeft(competitions, x)
             = Total([c \in ClubNames |-> Booked(CompetitionIn(competitions, x), c)],
                     ClubNames)

\* C11: no state that another request observes (a status read, a read of
\* the clubs table, another purchase) has some but not all of the three
\* updates of a successful purchase applied: whenever such a request is
\* served, the ledger, the points and the places it reads agree.
C11_NoPartialUpdateObserved ==
    [][(show_summary \/ display_club_points \/ ValidateRequest) => NoPartialPurchase]_vars

WithinLimits ==
    /\ \A i \in DOMAIN competitions :
          /\ int(competitions[i].numberOfPlaces) >= 0
          /\ \A c \in DOMAIN competitions[i].clubBookings :
                competitions[i].clubBookings[c] <= 12
    /\ \A k \in DOMAIN clubs : int(clubs[k].points) >= 0

\* C23: two purchases whose validation and writes interleave can both pass
\* the validation against the same state and both be applied, which reaches
\* states with negative places, negative points or a ledger entry above 12;
\* as long as every purchase was validated with no other one under way
\* (the requests ran one after the other) no such state is reached.
C23_OnlyRacesBreakLimits ==
    ~raced => WithinLimits

\* Both of two interleaved pairs of purchases were applied in full: a
\* ledger entry stands at 18, two clubs have negative points and a
\* competition has negative places.
C23_Witness ==
    /\ raced
    /\ \A w \in Workers : inflight[w] = Idle
    /\ result = PurchaseDone
    /\ Booked(CompetitionIn(competitions, "Comp1"), "Club1") = 18
    /\ PointsLeft(clubs, "Club1") = 0 - 5
    /\ PointsLeft(clubs, "Club2") = 0 - 6
    /\ PlacesLeft(competitions, "Comp2") = 0 - 6

(***************************************************************************)
(* Further properties of the booking rule.                                 *)
(***************************************************************************)
\* The validation without its first check (constraint 3, requested <= 12).
InvalidBookingWithoutCeiling(places_required, club, competition, club_name) ==
    \/ places_required > int(club.points)
    \/ places_required > int(competition.numberOfPlaces)
    \/ competition.clubBookings[club_name] + places_required > MaxPlaces

\* C24: the check requested > 12 is redundant in every reachable state: a
\* request it rejects is also rejected by ledger + requested > 12, so the
\* rule without it accepts and rejects exactly the same requests.
C24_CeilingCheckRedundant ==
    \A x \in CompetitionNames, c \in ClubNames, p \in FormPlaces :
       IsNumeric(p) =>
          LET competition == InitBookings(CompetitionIn(competitions, x), c)
              club == ClubIn(clubs, c)
              r == StrToInt(p)
          IN  /\ r > MaxPlaces => competition.clubBookings[c] + r > MaxPlaces
              /\ InvalidBooking(r, club, competition, c)
                    <=> InvalidBookingWithoutCeiling(r, club, competition, c)

\* C25: with a clock that only moves forward, the canBeBooked values that
\* the load and the successive status reads give one competition change at
\* most once, from true to false and never back: a flag that is false stays
\* false, and a flag goes from true to false only in a status read made
\* after the clock passed the date, nothing but the clock having changed.
C25_FlagFlipsOnceToFalse ==
    [][/\ now' >= now
       /\ \A i \in DOMAIN competitions :
            /\ ~competitions[i].canBeBooked => ~competitions'[i].canBeBooked
            /\ (competitions[i].canBeBooked /\ ~competitions'[i].canBeBooked) =>
                  /\ result'.op = "show_summary"
                  /\ result'.line = 107
                  /\ competitions[i].date < now
                  /\ competitions'[i] = [competitions[i] EXCEPT !.canBeBooked = FALSE]
            /\ (result'.op = "show_summary" /\ result'.line = 107 /\ now' = now) =>
                  (competitions'[i].canBeBooked <=> now <= competitions[i].date)]_vars

\* A club that bought nothing reads the status after the clock passed the
\* date of one competition and reached the date of the other: the flag of
\* the first is false and the flag of the second is true.
C25_Witness ==
    /\ result.op = "show_summary"
    /\ result.line = 107
    /\ session = "club2@test.com"
    /\ NeverWritten
    /\ now > CompetitionIn(competitions, "Comp2").date
    /\ ~CompetitionIn(competitions, "Comp2").canBeBooked
    /\ CompetitionIn(competitions, "Comp1").canBeBooked

\* The numbers of the store: points, places and ledger values (0 where a
\* club has no entry).
Numbers(club_list, competition_list) ==
    << [k \in DOMAIN club_list |-> int(club_list[k].points)],
       [i \in DOMAIN competition_list |-> int(competition_list[i].numberOfPlaces)],
       [i \in DOMAIN competition_list |->
           [c \in ClubNames |-> Booked(competition_list[i], c)]] >>

\* The names, emails and dates of the store, in order.
Identities(club_list, competition_list) ==
    << [k \in DOMAIN club_list |-> <<club_list[k].name, club_list[k].email>>],
       [i \in DOMAIN competition_list |->
           <<competition_list[i].name, competition_list[i].date>>] >>

\* C26: only a successful purchase_places changes a club's points, a
\* competition's numberOfPlaces or a ledger value; login, logout, book and
\* display_club_points leave the lists as they are and a status read
\* changes only canBeBooked flags; and no operation adds, removes or
\* renames a club or a competition or changes an email or a date.
C26_OnlyPurchaseChangesNumbers ==
    [][/\ Identities(clubs', competitions') = Identities(clubs, competitions)
       /\ Numbers(clubs', competitions') # Numbers(clubs, competitions)
             => (PurchaseStep /\ result' = PurchaseDone)
       /\ result'.op \in {"login", "logout", "book", "display_club_points"}
             => (clubs' = clubs /\ competitions' = competitions)
       /\ result'.op = "show_summary"
             => /\ clubs' = clubs
                /\ \A i \in DOMAIN competitions :
                      [competitions'[i] EXCEPT !.canBeBooked = competitions[i].canBeBooked]
                         = competitions[i]]_vars

\* After purchases, a status read closed one competition and left every
\* number as the purchases had made it.
C26_Witness ==
    /\ result.op = "show_summary"
    /\ result.line = 107
    /\ ~CompetitionIn(competitions, "Comp2").canBeBooked
    /\ Booked(CompetitionIn(competitions, "Comp2"), "Club2") = 6
    /\ PlacesLeft(competitions, "Comp2") = 0
    /\ PointsLeft(clubs, "Club2") = 0
    /\ PointsLeft(clubs, "Club1") = 13

\* C27: the outcome and the effects of purchase_places depend on the names
\* and the count of the request and on the store, not on which email the
\* session holds: with any other non-empty email in the session the same
\* request gets the same response and leaves the same lists, so a session
\* logged in as one club can spend the points of another.
C27_AnySessionEmailBuysForAnyClub ==
    \A x \in FormCompetitions, c \in FormClubs, p \in FormPlaces :
       Truthy(session) =>
          \A e \in FormEmails \ {NoEmail} :
             Purchase(x, c, p) = PurchaseOn(e, clubs, competitions, x, c, p)

\* The session holds the email of Club2, Club2 has bought nothing, and the
\* purchase just served spent points of Club1.
C27_Witness ==
    /\ session = "club2@test.com"
    /\ result = PurchaseDone
    /\ \A x \in CompetitionNames : applied[<<x, "Club2">>] = 0
    /\ PointsLeft(clubs, "Club2") = 6
    /\ applied[<<"Comp1", "Club1">>] = 6
    /\ PointsLeft(clubs, "Club1") = 7

\* C28: no purchase_places call, with any integer place count, ever raises
\* a club's points or a competition's numberOfPlaces or lowers a ledger
\* entry: along every sequence of purchases points and places are
\* non-increasing and ledger entries are non-decreasing.
C28_PurchasesAreMonotone ==
    [][PurchaseStep =>
          /\ \A k \in DOMAIN clubs : int(clubs'[k].points) <= int(clubs[k].points)
          /\ \A i \in DOMAIN competitions :
                /\ int(competitions'[i].numberOfPlaces) <= int(competitions[i].numberOfPlaces)
                /\ \A c \in ClubNames :
                      Booked(competitions'[i], c) >= Booked(competitions[i], c)]_vars

\* C29: every ledger entry is >= 0 in every state reached by purchases with
\* any integer place counts, from ledgers that are absent or all 0.
C29_LedgerNonNegative ==
    \A i \in DOMAIN competitions : \A c \in DOMAIN competitions[i].clubBookings :
       competitions[i].clubBookings[c] >= 0

\* C30: purchases made one at a time conserve points and places: for every
\* club, points plus the sum of its ledger entries over the competitions is
\* its points at the load, and for every competition, numberOfPlaces plus
\* the sum of its ledger entries over the clubs is its places at the load.
C30_PointsAndPlacesConserved ==
    /\ \A c \in ClubNames :
          PointsLeft(clubs, c)
             + Total([x \in CompetitionNames |-> Booked(CompetitionIn(competitions, x), c)],
                     CompetitionNames)
             = int(ClubIn(load_clubs, c).points)
    /\ \A x \in CompetitionNames :
          PlacesLeft(competitions, x)
             + Total([c \in ClubNames |-> Booked(CompetitionIn(competitions, x), c)],
                     ClubNames)
             = int(CompetitionIn(load_competitions(RawCompetitionsLedger, 0), x).numberOfPlaces)

\* Club1 bought 6 places in each competition and Club2 gave 6 back to one:
\* 1 point and 12 points, 25 places and 0 places.
C30_Witness ==
    /\ result.op = "purchase_places"
    /\ applied[<<"Comp1", "Club1">>] = 6
    /\ applied[<<"Comp2", "Club1">>] = 6
    /\ applied[<<"Comp1", "Club2">>] = 0 - 6
    /\ applied[<<"Comp2", "Club2">>] = 0
    /\ PointsLeft(clubs, "Club1") = 1
    /\ PointsLeft(clubs, "Club2") = 12
    /\ PlacesLeft(competitions, "Comp1") = 25
    /\ PlacesLeft(competitions, "Comp2") = 0

\* C31: a successful purchase by club C for competition X changes only C's
\* points, X's numberOfPlaces and X's ledger entry for C: every other club,
\* every other competition with its ledger, X's entries for the other
\* clubs, and the names, emails, dates and flags are as before the call.
C31_SuccessTouchesOnlyThePair ==
    \A x \in CompetitionNames, c \in ClubNames, p \in FormPlaces :
       LET out == Purchase(x, c, p)
       IN  out.result = PurchaseDone =>
            /\ DOMAIN out.clubs = DOMAIN clubs
            /\ DOMAIN out.competitions = DOMAIN competitions
            /\ \A k \in DOMAIN clubs :
                  IF clubs[k].name # c
                  THEN out.clubs[k] = clubs[k]
                  ELSE [out.clubs[k] EXCEPT !.points = clubs[k].points] = clubs[k]
            /\ \A i \in DOMAIN competitions :
                  LET old == competitions[i]
                      new == out.competitions[i]
                  IN  IF old.name # x
                      THEN new = old
                      ELSE /\ new.name = old.name
                           /\ new.date = old.date
                           /\ new.canBeBooked = old.canBeBooked
                           /\ DOMAIN new.clubBookings = DOMAIN old.clubBookings \cup {c}
                           /\ \A k \in DOMAIN old.clubBookings \ {c} :
                                 new.clubBookings[k] = old.clubBookings[k]

\* Club1 has just bought in Comp1, where Club2's entry of -6 stands next to
\* its 12; its untouched entry in Comp2 is 0, Comp2 has its 6 places and
\* Club2 its 12 points.
C31_Witness ==
    /\ result = PurchaseDone
    /\ applied[<<"Comp1", "Club1">>] = 12
    /\ DOMAIN CompetitionIn(competitions, "Comp1").clubBookings = {"Club1", "Club2"}
    /\ CompetitionIn(competitions, "Comp1").clubBookings["Club1"] = 12
    /\ CompetitionIn(competitions, "Comp1").clubBookings["Club2"] = 0 - 6
    /\ DOMAIN CompetitionIn(competitions, "Comp2").clubBookings = {"Club1"}
    /\ CompetitionIn(competitions, "Comp2").clubBookings["Club1"] = 0
    /\ PlacesLeft(competitions, "Comp2") = 6
    /\ PointsLeft(clubs, "Club2") = 12
    /\ PointsLeft(clubs, "Club1") = 1

====
